---------------------------- MODULE Spec2Model ----------------------------
(***************************************************************************)
(* A model of webtest-framework: the Page Object base class (page.py), the  *)
(* configuration loader (config.py, the config fixture of fixtures.py) and *)
(* the API client with its assertion helpers (api.py).                     *)
(*                                                                         *)
(* Python strings whose characters matter (URLs, paths, environment        *)
(* values) are sequences of one-character strings.  Python's None is the   *)
(* value None.  An exception leaving a method is an outcome of kind        *)
(* "raised".                                                               *)
(***************************************************************************)
EXTENDS Integers, Sequences, FiniteSets, TLC

VARIABLES
    flow,         \* what the test under way drives: "ui" (a page object),
                  \* "api" (an APIClient) or "none" (neither)
    \* ---- BasePage (page.py) ----
    po_orig,      \* the page object a chain of calls starts on
    po_base,      \* its base_url
    po_chain,     \* the reference the chain holds now (None after a raise)
    po_status,    \* "ok" | "raised"
    po_given,     \* the arguments of the last method call of the chain
    po_call,      \* the call it delegated to the underlying page (the last one)
    po_n,         \* calls delegated in this chain
    po_plan,      \* what the underlying page does with the 1st, 2nd, ... call
                  \* the last method issues, if it is issued: "ok" or an error
    po_issued,    \* the calls the last method issued to the underlying page
    po_error,     \* the error that left the last method, None if it returned
    \* ---- Config (config.py, fixtures.py) ----
    cf_file,      \* config.yaml: Absent, or what yaml.safe_load makes of it
    cf_env,       \* TEST_BASE_URL, TEST_HEADLESS, TEST_TIMEOUT
    cf_op,        \* which entry point ran: "none" | "config" | "from_yaml" | "from_env"
    cf_result,    \* its outcome
    \* ---- APIClient (api.py) ----
    api_given,    \* the base_url handed to APIClient(...)
    api_base,     \* self.base_url
    api_headers,  \* self.default_headers
    api_write,    \* the last set_header / set_auth_token: the key and value written
    api_req,      \* the request made since the default headers last changed, if
                  \* any: the path and per-call headers given, what was sent
    api_resp,     \* what _make_request returned for it
    \* ---- Response assertions (api.py) ----
    as_resp,      \* the Response under assertion
    as_call,      \* the last assertion call and its arguments
    as_outcome,   \* its outcome
    \* ---- take_screenshot and pytest_runtest_makereport (fixtures.py) ----
    fx_pc,        \* where pytest's run of the test item stands
    fx_tests,     \* test items run so far
    fx_name,      \* request.node.name
    fx_dir,       \* screenshot_dir
    fx_active,    \* take_screenshot has run up to its yield
    fx_pending,   \* the outcome of the phase that just ran, not yet reported
    fx_rep,       \* the rep_<when> attributes of the item: when -> outcome
    fx_read,      \* what take_screenshot's teardown got for rep_call:
                  \* "none" while it has not run, else the outcome it read
                  \* or "AttributeError"
    fx_shot       \* the screenshot call the teardown issued to the page

poVars ==
    <<po_orig, po_base, po_chain, po_status, po_given, po_call, po_n,
      po_plan, po_issued, po_error>>
cfVars == <<cf_file, cf_env, cf_op, cf_result>>
apiVars == <<api_given, api_base, api_headers, api_write, api_req, api_resp>>
asVars == <<as_resp, as_call, as_outcome>>
fxVars ==
    <<fx_pc, fx_tests, fx_name, fx_dir, fx_active, fx_pending, fx_rep, fx_read,
      fx_shot>>
vars == <<flow, poVars, cfVars, apiVars, asVars, fxVars>>

None == "None"

\* how a call ends: it returns a value or an exception leaves it
Returned(v) == [kind |-> "ok", value |-> v]
Raised(e) == [kind |-> "raised", error |-> e]
NoResult == [kind |-> "none"]

(***************************************************************************)
(* Strings                                                                 *)
(***************************************************************************)
\* Longest base URL / path explored, in characters.
MaxUrlLen == 3

UrlAlphabet == {"a", "/"}

RECURSIVE StringsUpTo(_, _)
StringsUpTo(alphabet, n) ==
    IF n = 0 THEN {<<>>}
    ELSE LET shorter == StringsUpTo(alphabet, n - 1)
         IN  shorter \cup {Append(s, c) : s \in shorter, c \in alphabet}

UrlStrings == StringsUpTo(UrlAlphabet, MaxUrlLen)

\* str.rstrip(chars) for a one-character chars
RECURSIVE rstrip(_, _)
rstrip(s, c) ==
    IF s # <<>> /\ s[Len(s)] = c THEN rstrip(SubSeq(s, 1, Len(s) - 1), c) ELSE s

\* str.lstrip(chars) for a one-character chars
RECURSIVE lstrip(_, _)
lstrip(s, c) ==
    IF s # <<>> /\ s[1] = c THEN lstrip(Tail(s), c) ELSE s

\* "/" * n
RECURSIVE Slashes(_)
Slashes(n) == IF n = 0 THEN <<>> ELSE <<"/">> \o Slashes(n - 1)

\* Python truthiness of a str: the empty string is falsy
Truthy(s) == s # <<>>

(***************************************************************************)
(* BasePage (page.py)                                                      *)
(*                                                                         *)
(* Each method is an operator giving the call it delegates to the          *)
(* underlying page and the value it returns when that call succeeds.       *)
(***************************************************************************)
PageObjects == {"po1", "po2"}
Selectors == {"#button", "#input"}
Values == {"value"}

\* Longest chain of calls explored.
MaxCalls == 4

OtherPageObject(self) == CHOOSE o \in PageObjects : o # self

Call(op, args) == [op |-> op, args |-> args]
NoCall == Call("none", <<>>)

\* a navigate that always joins, whatever the path
navigate_url_always_joins(base_url, path) ==
    rstrip(base_url, "/") \o <<"/">> \o lstrip(path, "/")

\* the url navigate goes to
navigate_url(base_url, path) ==
    IF Truthy(path) THEN rstrip(base_url, "/") \o <<"/">> \o lstrip(path, "/")
    ELSE base_url

navigate(self, path) ==
    [call |-> Call("goto", <<navigate_url(po_base, path)>>), ret |-> self]

wait_for_load(self) ==
    [call |-> Call("wait_for_load_state", <<"networkidle">>), ret |-> self]

reload(self) == [call |-> Call("reload", <<>>), ret |-> self]

screenshot(self, path) ==
    [call |-> Call("screenshot", <<path, "full_page">>), ret |-> self]

click(self, selector) == [call |-> Call("click", <<selector>>), ret |-> self]

\* a fill that hands back a new page object over the same page
fill_returns_copy(self, selector, value) ==
    [call |-> Call("fill", <<selector, value>>), ret |-> OtherPageObject(self)]

fill(self, selector, value) ==
    [call |-> Call("fill", <<selector, value>>), ret |-> self]

type(self, selector, value, delay) ==
    [call |-> Call("type", <<selector, value, delay>>), ret |-> self]

select(self, selector, value) ==
    [call |-> Call("select_option", <<selector, value>>), ret |-> self]

check(self, selector) == [call |-> Call("check", <<selector>>), ret |-> self]

uncheck(self, selector) == [call |-> Call("uncheck", <<selector>>), ret |-> self]

wait_for(self, selector, state, timeout) ==
    [call |-> Call("wait_for_selector", <<selector, state, timeout>>), ret |-> self]

wait_for_url(self, url, timeout) ==
    [call |-> Call("wait_for_url", <<url, timeout>>), ret |-> self]

expect_visible(self, selector) ==
    [call |-> Call("expect.to_be_visible", <<selector>>), ret |-> self]

expect_hidden(self, selector) ==
    [call |-> Call("expect.to_be_hidden", <<selector>>), ret |-> self]

expect_text(self, selector, text) ==
    [call |-> Call("expect.to_have_text", <<selector, text>>), ret |-> self]

expect_value(self, selector, value) ==
    [call |-> Call("expect.to_have_value", <<selector, value>>), ret |-> self]

\* What the underlying page can do with a call: carry it out, or raise one
\* of its errors.
PageErrors == {"TimeoutError", "Error"}
PageOutcomes == {"ok"} \cup PageErrors

\* a method body that caught whatever the page raised and returned self
delegate_swallows(m, outcome) ==
    [issued |-> <<m.call>>, result |-> Returned(m.ret)]

\* The body every chaining method has: `self.page.<call>(...)`, then
\* `return self`, with no try around the call.  If the page raises, the
\* error leaves the method as it is and nothing is returned.
delegate(m, outcome) ==
    [issued |-> <<m.call>>,
     result |-> IF outcome = "ok" THEN Returned(m.ret) ELSE Raised(outcome)]

SEARCH_INPUT == "input[name='q']"
SEARCH_BUTTON == "button[type='submit']"

\* SearchPage.search(query):
\*   self.fill(SEARCH_INPUT, query).click(SEARCH_BUTTON).wait_for_load()
\* Each call of the chain is made on what the one before it returned; an
\* error ends the evaluation of the expression.  plan[i] is what the page
\* does with the i-th call if it gets it.
search(self, query, plan) ==
    LET s1 == delegate(fill(self, SEARCH_INPUT, query), plan[1])
    IN  IF s1.result.kind = "raised" THEN s1
        ELSE LET s2 == delegate(click(s1.result.value, SEARCH_BUTTON), plan[2])
             IN  IF s2.result.kind = "raised"
                 THEN [issued |-> s1.issued \o s2.issued, result |-> s2.result]
                 ELSE LET s3 == delegate(wait_for_load(s2.result.value), plan[3])
                      IN  [issued |-> s1.issued \o s2.issued \o s3.issued,
                           result |-> s3.result]

\* BasePage(page, base_url): a test starts a chain on a page object
Construct ==
    /\ flow = "ui"
    /\ po_orig' \in PageObjects
    /\ po_base' \in UrlStrings
    /\ po_chain' = po_orig'
    /\ po_status' = "ok"
    /\ po_given' = <<>>
    /\ po_call' = NoCall
    /\ po_n' = 0
    /\ po_plan' = <<>>
    /\ po_issued' = <<>>
    /\ po_error' = None
    /\ UNCHANGED <<flow, fxVars, cfVars, apiVars, asVars>>

\* One method call on the reference the chain holds.  The underlying page
\* call either succeeds, and the method returns, or raises, and the
\* exception leaves the method: nothing is returned and the chain ends.
Finish(given, plan, done) ==
    /\ po_given' = given
    /\ po_plan' = plan
    /\ po_issued' = done.issued
    /\ po_call' = done.issued[Len(done.issued)]
    /\ po_n' = po_n + Len(done.issued)
    /\ IF done.result.kind = "ok"
       THEN po_chain' = done.result.value /\ po_status' = "ok" /\ po_error' = None
       ELSE po_chain' = None /\ po_status' = "raised" /\ po_error' = done.result.error
    /\ UNCHANGED <<flow, fxVars, po_orig, po_base, cfVars, apiVars, asVars>>

Invoke(m, given) ==
    /\ flow = "ui"
    /\ po_status = "ok"
    /\ po_n < MaxCalls
    /\ \E outcome \in PageOutcomes :
          Finish(given, <<outcome>>, delegate(m, outcome))

Navigate == \E path \in UrlStrings : Invoke(navigate(po_chain, path), <<path>>)
WaitForLoad == Invoke(wait_for_load(po_chain), <<>>)
Reload == Invoke(reload(po_chain), <<>>)
Screenshot == Invoke(screenshot(po_chain, "test.png"), <<"test.png">>)
Click == \E s \in Selectors : Invoke(click(po_chain, s), <<s>>)
Fill == \E s \in Selectors, v \in Values : Invoke(fill(po_chain, s, v), <<s, v>>)
Type == \E s \in Selectors, v \in Values : Invoke(type(po_chain, s, v, 50), <<s, v>>)
Select == \E s \in Selectors, v \in Values : Invoke(select(po_chain, s, v), <<s, v>>)
Check == \E s \in Selectors : Invoke(check(po_chain, s), <<s>>)
Uncheck == \E s \in Selectors : Invoke(uncheck(po_chain, s), <<s>>)
WaitFor == \E s \in Selectors : Invoke(wait_for(po_chain, s, "visible", None), <<s>>)
WaitForUrl == Invoke(wait_for_url(po_chain, "**/done", None), <<"**/done">>)
ExpectVisible == \E s \in Selectors : Invoke(expect_visible(po_chain, s), <<s>>)
ExpectHidden == \E s \in Selectors : Invoke(expect_hidden(po_chain, s), <<s>>)
ExpectText == \E s \in Selectors, v \in Values : Invoke(expect_text(po_chain, s, v), <<s, v>>)
ExpectValue == \E s \in Selectors, v \in Values : Invoke(expect_value(po_chain, s, v), <<s, v>>)

\* SearchPage(page, base_url).search(query), as one more link of the chain
Search ==
    /\ flow = "ui"
    /\ po_status = "ok"
    /\ po_n + 3 <= MaxCalls
    /\ \E query \in Values, plan \in [1..3 -> PageOutcomes] :
          Finish(<<query>>, plan, search(po_chain, query, plan))

PageNext ==
    \/ Construct
    \/ Navigate
    \/ WaitForLoad
    \/ Reload
    \/ Screenshot
    \/ Click
    \/ Fill
    \/ Type
    \/ Select
    \/ Check
    \/ Uncheck
    \/ WaitFor
    \/ WaitForUrl
    \/ ExpectVisible
    \/ ExpectHidden
    \/ ExpectText
    \/ ExpectValue
    \/ Search

(***************************************************************************)
(* Config (config.py) and the config fixture (fixtures.py)                 *)
(*                                                                         *)
(* An environment variable is [set, val]: os.getenv gives None when set is *)
(* FALSE.  TEST_HEADLESS and TEST_TIMEOUT, whose characters the code       *)
(* reads, are character sequences; base URLs, which it only passes along,  *)
(* are plain strings.                                                      *)
(***************************************************************************)
\* Longest TEST_TIMEOUT value explored, in characters.
MaxIntLen == 2

IntAlphabet == {"0", "1", "-", " ", "x"}

Digits == <<"0", "1", "2", "3", "4", "5", "6", "7", "8", "9">>
IsDigit(c) == \E i \in DOMAIN Digits : Digits[i] = c
DigitVal(c) == (CHOOSE i \in DOMAIN Digits : Digits[i] = c) - 1

Unset == [set |-> FALSE, val |-> <<>>]
SetTo(v) == [set |-> TRUE, val |-> v]
UnsetStr == [set |-> FALSE, val |-> ""]

\* the truthiness of what os.getenv returns: None and "" are falsy
EnvTruthy(e) == e.set /\ e.val # <<>>
EnvTruthyStr(e) == e.set /\ e.val # ""

LowerChar(c) ==
    CASE c = "T" -> "t" [] c = "R" -> "r" [] c = "U" -> "u" [] c = "E" -> "e"
      [] c = "F" -> "f" [] c = "A" -> "a" [] c = "L" -> "l" [] c = "S" -> "s"
      [] c = "Y" -> "y" [] OTHER -> c

\* str.lower() left out: the comparison becomes case-sensitive
lower_identity(s) == s

\* str.lower()
lower(s) == [i \in DOMAIN s |-> LowerChar(s[i])]

RECURSIVE DigitsValue(_, _)
\* the decimal value of the digits of s, underscores skipped, after acc
DigitsValue(s, acc) ==
    IF s = <<>> THEN acc
    ELSE IF s[1] = "_" THEN DigitsValue(Tail(s), acc)
    ELSE DigitsValue(Tail(s), 10 * acc + DigitVal(s[1]))

\* int(s) of a str: surrounding whitespace stripped, an optional sign, then
\* digits, single underscores allowed between digits; ValueError otherwise
PyInt(s) ==
    LET t == rstrip(lstrip(s, " "), " ")
        signed == t # <<>> /\ t[1] \in {"-", "+"}
        body == IF signed THEN Tail(t) ELSE t
        wellFormed ==
            /\ body # <<>>
            /\ IsDigit(body[1]) /\ IsDigit(body[Len(body)])
            /\ \A i \in DOMAIN body : IsDigit(body[i]) \/ body[i] = "_"
            /\ \A i \in 1..(Len(body) - 1) : ~(body[i] = "_" /\ body[i + 1] = "_")
        magnitude == DigitsValue(body, 0)
    IN  IF wellFormed
        THEN [ok |-> TRUE, val |-> IF signed /\ t[1] = "-" THEN 0 - magnitude ELSE magnitude]
        ELSE [ok |-> FALSE, val |-> 0]

\* BrowserConfig() and Config(): the declared defaults
DefaultBrowserConfig ==
    [headless |-> TRUE, slow_mo |-> 0, viewport_width |-> 1280,
     viewport_height |-> 720, timeout |-> 30000]

DefaultConfig ==
    [base_url |-> "http://localhost:8000", browser |-> DefaultBrowserConfig,
     screenshot_on_failure |-> TRUE, screenshot_dir |-> "screenshots",
     api_timeout |-> 10]

\* A key of the data handed to Config(**data): absent, or present with a
\* value of the field's type, or present with a value pydantic rejects.
KeyAbsent(v) == [set |-> FALSE, valid |-> TRUE, val |-> v]
KeyValue(v) == [set |-> TRUE, valid |-> TRUE, val |-> v]
KeyBadType(v) == [set |-> TRUE, valid |-> FALSE, val |-> v]

DataKeys == {"base_url", "headless", "timeout"}

\* Config(**data) for a mapping data over base_url, browser.headless and
\* browser.timeout: pydantic validates each given key and raises on a value
\* of the wrong type; a key not given keeps its default.
ConfigFrom(data) ==
    IF \E k \in DataKeys : data[k].set /\ ~data[k].valid
    THEN Raised("ValidationError")
    ELSE Returned(
           [DefaultConfig EXCEPT
              !.base_url = IF data.base_url.set THEN data.base_url.val ELSE @,
              !.browser.headless = IF data.headless.set THEN data.headless.val ELSE @,
              !.browser.timeout = IF data.timeout.set THEN data.timeout.val ELSE @])

\* config.yaml: absent, or what yaml.safe_load makes of its content
FileAbsent == [kind |-> "absent"]
FileUnparseable == [kind |-> "unparseable"]
FileEmpty == [kind |-> "none"]
FileScalar(truthy) == [kind |-> "scalar", truthy |-> truthy]
FileList(n) == [kind |-> "list", len |-> n]
FileMap(items) == [kind |-> "map", items |-> items]

FileMaps ==
    { FileMap([base_url |-> b, headless |-> h, timeout |-> t]) :
        b \in {KeyAbsent(""), KeyValue("http://file"), KeyBadType("")},
        h \in {KeyAbsent(TRUE), KeyValue(FALSE)},
        t \in {KeyAbsent(0), KeyValue(5000), KeyValue(0 - 1), KeyBadType(0)} }

FileContents ==
    {FileUnparseable, FileEmpty, FileScalar(TRUE), FileScalar(FALSE),
     FileList(0), FileList(1)} \cup FileMaps

Files == {FileAbsent} \cup FileContents

\* the truthiness of the loaded data: None, 0, False, "", [] and {} are falsy
DataTruthy(f) ==
    CASE f.kind = "none" -> FALSE
      [] f.kind = "scalar" -> f.truthy
      [] f.kind = "list" -> f.len > 0
      [] f.kind = "map" -> \E k \in DataKeys : f.items[k].set

\* Config.from_yaml(path)
from_yaml(f) ==
    IF f.kind = "absent" THEN Returned(DefaultConfig)
    ELSE IF f.kind = "unparseable" THEN Raised("YAMLError")
    ELSE IF ~DataTruthy(f) THEN Returned(DefaultConfig)
    ELSE IF f.kind = "map" THEN ConfigFrom(f.items)
    ELSE Raised("TypeError")

\* a from_env that reads TEST_TIMEOUT leniently: the default on a bad value
from_env_lenient(env) ==
    LET timeout == IF EnvTruthy(env.TEST_TIMEOUT) THEN PyInt(env.TEST_TIMEOUT.val)
                   ELSE [ok |-> FALSE, val |-> 0]
    IN  ConfigFrom(
          [base_url |-> IF EnvTruthyStr(env.TEST_BASE_URL)
                        THEN KeyValue(env.TEST_BASE_URL.val) ELSE KeyAbsent(""),
           headless |-> IF EnvTruthy(env.TEST_HEADLESS)
                        THEN KeyValue(lower(env.TEST_HEADLESS.val) = <<"t", "r", "u", "e">>)
                        ELSE KeyAbsent(TRUE),
           timeout |-> IF timeout.ok THEN KeyValue(timeout.val) ELSE KeyAbsent(0)])

\* Config.from_env()
from_env(env) ==
    LET timeout == IF EnvTruthy(env.TEST_TIMEOUT) THEN PyInt(env.TEST_TIMEOUT.val)
                   ELSE [ok |-> TRUE, val |-> 0]
    IN  IF ~timeout.ok THEN Raised("ValueError")
        ELSE ConfigFrom(
               [base_url |-> IF EnvTruthyStr(env.TEST_BASE_URL)
                             THEN KeyValue(env.TEST_BASE_URL.val) ELSE KeyAbsent(""),
                headless |-> IF EnvTruthy(env.TEST_HEADLESS)
                             THEN KeyValue(lower(env.TEST_HEADLESS.val) = <<"t", "r", "u", "e">>)
                             ELSE KeyAbsent(TRUE),
                timeout |-> IF EnvTruthy(env.TEST_TIMEOUT)
                            THEN KeyValue(timeout.val) ELSE KeyAbsent(0)])

\* a fixture that always reads the environment, file or no file
config_env_only(f, env) == from_env(env)

\* the config fixture: the file when it exists, the environment otherwise
config(f, env) ==
    IF f.kind # "absent" THEN from_yaml(f) ELSE from_env(env)

BaseUrlEnvValues == {UnsetStr, SetTo(""), SetTo("https://env.example.com")}

HeadlessEnvValues ==
    {Unset, SetTo(<<>>), SetTo(<<"t", "r", "u", "e">>), SetTo(<<"T", "R", "U", "E">>),
     SetTo(<<"T", "r", "u", "e">>), SetTo(<<"f", "a", "l", "s", "e">>),
     SetTo(<<"t", "r", "u", "e", " ">>), SetTo(<<"y", "e", "s">>)}

TimeoutEnvValues == {Unset} \cup {SetTo(s) : s \in StringsUpTo(IntAlphabet, MaxIntLen)}

Environments ==
    [TEST_BASE_URL : BaseUrlEnvValues, TEST_HEADLESS : HeadlessEnvValues,
     TEST_TIMEOUT : TimeoutEnvValues]

\* a test session resolves its configuration through the config fixture
ConfigFixture ==
    /\ cf_op = "none"
    /\ cf_op' = "config"
    /\ cf_result' = config(cf_file, cf_env)
    /\ UNCHANGED <<flow, fxVars, cf_file, cf_env, poVars, apiVars, asVars>>

\* Config.from_yaml called on the path of config.yaml
FromYaml ==
    /\ cf_op = "none"
    /\ cf_op' = "from_yaml"
    /\ cf_result' = from_yaml(cf_file)
    /\ UNCHANGED <<flow, fxVars, cf_file, cf_env, poVars, apiVars, asVars>>

\* Config.from_env called directly
FromEnv ==
    /\ cf_op = "none"
    /\ cf_op' = "from_env"
    /\ cf_result' = from_env(cf_env)
    /\ UNCHANGED <<flow, fxVars, cf_file, cf_env, poVars, apiVars, asVars>>

ConfigNext ==
    \/ ConfigFixture
    \/ FromYaml
    \/ FromEnv

(***************************************************************************)
(* APIClient (api.py)                                                      *)
(*                                                                         *)
(* A header map is a function from the header names it holds to values; a  *)
(* header value is the sequence of the pieces it is concatenated from.     *)
(***************************************************************************)
\* Most slashes explored at the end of a base URL and the start of a path.
MaxSlashes == 2

ApiBaseUrls ==
    {core \o Slashes(k) : core \in {<<>>, <<"a", "/", "b">>}, k \in 0..MaxSlashes}

ApiPaths ==
    {Slashes(k) \o core : core \in {<<>>, <<"u", "/">>}, k \in 0..MaxSlashes}

HeaderKeys == {"Authorization", "X-Custom"}
Tokens == {"my-token"}
HeaderMaps(values) == UNION {[ks -> values] : ks \in SUBSET HeaderKeys}
NoHeaders == [k \in {} |-> <<>>]

\* {**defaults, **per_call} with the defaults unpacked last
merge_defaults_win(defaults, per_call) ==
    [k \in DOMAIN defaults \cup DOMAIN per_call |->
        IF k \in DOMAIN defaults THEN defaults[k] ELSE per_call[k]]

\* {**defaults, **per_call}
merge(defaults, per_call) ==
    [k \in DOMAIN defaults \cup DOMAIN per_call |->
        IF k \in DOMAIN per_call THEN per_call[k] ELSE defaults[k]]

\* d[key] = value on a dict
DictSet(d, key, value) ==
    [k \in DOMAIN d \cup {key} |-> IF k = key THEN value ELSE d[k]]

\* self.base_url as APIClient.__init__ sets it
client_base_url(base_url) == rstrip(base_url, "/")

\* a join that keeps the leading slashes of the path
request_url_keeps_slashes(self_base_url, path) == self_base_url \o <<"/">> \o path

\* the url of _make_request
request_url(self_base_url, path) == self_base_url \o <<"/">> \o lstrip(path, "/")

\* What the HTTP session can answer: raise, or a response whose body parses
\* as JSON or does not.  elapsed is total_seconds() * 1000, in tenths of a ms.
SessionAnswers ==
    {[raises |-> TRUE, error |-> "ConnectionError",
      status_code |-> 0, parses |-> FALSE, text |-> "", elapsed |-> 0],
     [raises |-> FALSE, error |-> None, status_code |-> 200, parses |-> TRUE,
      text |-> "{\"data\": \"test\"}", elapsed |-> 504],
     [raises |-> FALSE, error |-> None, status_code |-> 404, parses |-> FALSE,
      text |-> "Not Found", elapsed |-> 1000]}

\* the Response _make_request builds from the session's answer
make_response(answer) ==
    IF answer.raises THEN Raised(answer.error)
    ELSE Returned([status_code |-> answer.status_code,
                   json_data |-> IF answer.parses THEN "parsed" ELSE None,
                   text |-> answer.text,
                   elapsed_ms |-> answer.elapsed])

ApiTimeout == 10

NoRequest == [made |-> FALSE]
NoWrite == [key |-> None, value |-> <<>>]

\* APIClient(base_url)
NewClient ==
    /\ flow = "api"
    /\ api_given' \in ApiBaseUrls
    /\ api_base' = client_base_url(api_given')
    /\ api_headers' = NoHeaders
    /\ api_write' = NoWrite
    /\ api_req' = NoRequest
    /\ api_resp' = NoResult
    /\ UNCHANGED <<flow, fxVars, poVars, cfVars, asVars>>

\* set_header(key, value)
SetHeader ==
    /\ flow = "api"
    /\ \E key \in HeaderKeys, value \in {"v1"} :
          /\ api_headers' = DictSet(api_headers, key, <<value>>)
          /\ api_write' = [key |-> key, value |-> <<value>>]
    /\ api_req' = NoRequest
    /\ api_resp' = NoResult
    /\ UNCHANGED <<flow, fxVars, api_given, api_base, poVars, cfVars, asVars>>

\* set_auth_token(token)
SetAuthToken ==
    /\ flow = "api"
    /\ \E token \in Tokens :
          /\ api_headers' = DictSet(api_headers, "Authorization", <<"Bearer ", token>>)
          /\ api_write' = [key |-> "Authorization", value |-> <<"Bearer ", token>>]
    /\ api_req' = NoRequest
    /\ api_resp' = NoResult
    /\ UNCHANGED <<flow, fxVars, api_given, api_base, poVars, cfVars, asVars>>

\* _make_request(method, path, headers=per_call).  The method and the other
\* keyword arguments go to the session as given and are not kept here.
MakeRequest(path, per_call) ==
    /\ flow = "api"
    /\ \E answer \in SessionAnswers :
          /\ api_req' = [made |-> TRUE, path |-> path, per_call |-> per_call,
                         url |-> request_url(api_base, path),
                         headers |-> merge(api_headers, per_call),
                         timeout |-> ApiTimeout,
                         answer |-> answer]
          /\ api_resp' = make_response(answer)
    /\ UNCHANGED <<flow, fxVars, api_given, api_base, api_headers, api_write, poVars, cfVars, asVars>>

PerCallHeaders == HeaderMaps({<<"call">>})

Get == \E path \in ApiPaths, h \in PerCallHeaders : MakeRequest(path, h)
Post == \E path \in ApiPaths, h \in PerCallHeaders : MakeRequest(path, h)
Put == \E path \in ApiPaths, h \in PerCallHeaders : MakeRequest(path, h)
Patch == \E path \in ApiPaths, h \in PerCallHeaders : MakeRequest(path, h)
Delete == \E path \in ApiPaths, h \in PerCallHeaders : MakeRequest(path, h)

ApiNext ==
    \/ NewClient
    \/ SetHeader
    \/ SetAuthToken
    \/ Get
    \/ Post
    \/ Put
    \/ Patch
    \/ Delete

(***************************************************************************)
(* Response and the assertion helpers (api.py)                             *)
(*                                                                         *)
(* json_data is None, a dict (a function from its keys to values) or a    *)
(* list (of which only the length is kept).  A JSON null is None.          *)
(* elapsed_ms and max_ms are floats: they are kept to one decimal place,   *)
(* as a whole number of tenths of a millisecond (1004 is 100.4 ms).        *)
(***************************************************************************)
JsonKeys == {"name", "id"}
JsonValues == {None, "test", "other"}

JsonNone == [kind |-> "none"]
JsonDict(items) == [kind |-> "dict", items |-> items]
JsonList(n) == [kind |-> "list", len |-> n]

JsonBodies ==
    {JsonNone, JsonList(0), JsonList(1)}
    \cup {JsonDict(d) : d \in UNION {[ks -> JsonValues] : ks \in SUBSET JsonKeys}}

Responses ==
    [status_code : {200, 404}, json_data : JsonBodies, elapsed_ms : {1000, 1004, 1005, 1015, 5000}]

Passed == [kind |-> "passed"]
Failed(error, message) == [kind |-> "raised", error |-> error, message |-> message]

\* Response.ok
ok(response) == 200 <= response.status_code /\ response.status_code < 300

\* a json() that tests the body for truth, and so takes {} and [] for absent
json_falsy_raises(response) ==
    IF \/ response.json_data.kind = "none"
       \/ response.json_data.kind = "dict" /\ DOMAIN response.json_data.items = {}
       \/ response.json_data.kind = "list" /\ response.json_data.len = 0
    THEN Failed("ValueError", <<"Response is not JSON">>)
    ELSE Returned(response.json_data)

\* Response.json()
json(response) ==
    IF response.json_data.kind = "none"
    THEN Failed("ValueError", <<"Response is not JSON">>)
    ELSE Returned(response.json_data)

\* an assert_status that accepts any successful response
assert_status_any_success(response, expected) ==
    IF response.status_code = expected \/ ok(response) THEN Passed
    ELSE Failed("AssertionError",
                <<"Expected status ", expected, ", got ", response.status_code>>)

\* assert_status(response, expected)
assert_status(response, expected) ==
    IF response.status_code = expected THEN Passed
    ELSE Failed("AssertionError",
                <<"Expected status ", expected, ", got ", response.status_code>>)

\* an assert_json_contains that skips the comparison of values altogether
assert_json_contains_key_only(response, key, value) ==
    LET data == json(response)
    IN  IF data.kind = "raised" THEN data
        ELSE IF data.value.kind # "dict"
        THEN Failed("AssertionError", <<"Response is not a JSON object">>)
        ELSE IF key \notin DOMAIN data.value.items
        THEN Failed("AssertionError", <<"Key '", key, "' not found in response">>)
        ELSE Passed

\* assert_json_contains(response, key, value=None)
assert_json_contains(response, key, value) ==
    LET data == json(response)
    IN  IF data.kind = "raised" THEN data
        ELSE IF data.value.kind # "dict"
        THEN Failed("AssertionError", <<"Response is not a JSON object">>)
        ELSE IF key \notin DOMAIN data.value.items
        THEN Failed("AssertionError", <<"Key '", key, "' not found in response">>)
        ELSE IF value # None /\ data.value.items[key] # value
        THEN Failed("AssertionError",
                    <<"Expected ", key, "=", value, ", got ", data.value.items[key]>>)
        ELSE Passed

\* format(x, ".0f"): x printed with no decimals, rounded to the nearest whole
\* number, a half going to the even neighbour.  x is in tenths, the result
\* in units.
format_0f(x) ==
    LET q == x \div 10
        r == x % 10
    IN  IF r < 5 THEN q
        ELSE IF r > 5 THEN q + 1
        ELSE IF q % 2 = 0 THEN q ELSE q + 1

\* an assert_response_time whose bound is exclusive
assert_response_time_exclusive(response, max_ms) ==
    IF response.elapsed_ms < max_ms THEN Passed
    ELSE Failed("AssertionError",
                <<"Response took ", format_0f(response.elapsed_ms),
                  "ms, expected <= ", max_ms, "ms">>)

\* assert_response_time(response, max_ms)
assert_response_time(response, max_ms) ==
    IF response.elapsed_ms <= max_ms THEN Passed
    ELSE Failed("AssertionError",
                <<"Response took ", format_0f(response.elapsed_ms),
                  "ms, expected <= ", max_ms, "ms">>)

NoAssertion == [fn |-> None]

\* Response(status_code, json_data, text, headers, elapsed_ms)
NewResponse ==
    /\ as_resp' \in Responses
    /\ as_call' = NoAssertion
    /\ as_outcome' = NoResult
    /\ UNCHANGED <<flow, fxVars, poVars, cfVars, apiVars>>

ReadOk ==
    /\ as_call' = [fn |-> "ok"]
    /\ as_outcome' = Returned(ok(as_resp))
    /\ UNCHANGED <<flow, fxVars, as_resp, poVars, cfVars, apiVars>>

ReadJson ==
    /\ as_call' = [fn |-> "json"]
    /\ as_outcome' = json(as_resp)
    /\ UNCHANGED <<flow, fxVars, as_resp, poVars, cfVars, apiVars>>

AssertStatus ==
    /\ \E expected \in {200, 404} :
          /\ as_call' = [fn |-> "assert_status", expected |-> expected]
          /\ as_outcome' = assert_status(as_resp, expected)
    /\ UNCHANGED <<flow, fxVars, as_resp, poVars, cfVars, apiVars>>

\* The caller either leaves value out, and the parameter takes its default
\* None, or supplies one, which may itself be None.
AssertJsonContains ==
    /\ \E key \in {"name", "missing"}, supplied \in BOOLEAN, given \in JsonValues :
          LET value == IF supplied THEN given ELSE None
          IN  /\ as_call' = [fn |-> "assert_json_contains", key |-> key,
                             supplied |-> supplied, value |-> value]
              /\ as_outcome' = assert_json_contains(as_resp, key, value)
    /\ UNCHANGED <<flow, fxVars, as_resp, poVars, cfVars, apiVars>>

AssertResponseTime ==
    /\ \E max_ms \in {1000, 2000} :
          /\ as_call' = [fn |-> "assert_response_time", max_ms |-> max_ms]
          /\ as_outcome' = assert_response_time(as_resp, max_ms)
    /\ UNCHANGED <<flow, fxVars, as_resp, poVars, cfVars, apiVars>>

AssertNext ==
    \/ NewResponse
    \/ ReadOk
    \/ ReadJson
    \/ AssertStatus
    \/ AssertJsonContains
    \/ AssertResponseTime

(***************************************************************************)
(* take_screenshot and pytest_runtest_makereport (fixtures.py)             *)
(*                                                                         *)
(* pytest runs a test item in three phases, setup, call and teardown, and  *)
(* makes a report after each, for which it calls the makereport hook.  The *)
(* call phase runs only if setup passed; teardown always runs, and         *)
(* finishes the fixtures that were set up, in reverse order.               *)
(***************************************************************************)
\* Test items run in a session.
MaxTests == 2

TestNames == {"test_login", "test_search"}
ScreenshotDirs == {"screenshots", "out"}
PhaseOutcomes == {"passed", "failed", "skipped"}

\* an item with no rep_<when> attribute
NoReports == [when \in {} |-> None]

\* screenshot_dir / f"{request.node.name}.png"
screenshot_path(dir, name) == <<dir, "/", name, ".png">>

\* take_screenshot after its yield.  rep holds the item's rep_<when>
\* attributes: reading one that was never set raises AttributeError.
\* page_outcome is what page.screenshot does if it is called.
take_screenshot_teardown(rep, dir, name, page_outcome) ==
    IF "call" \notin DOMAIN rep
    THEN [read |-> "AttributeError", shot |-> NoCall,
          result |-> Raised("AttributeError")]
    ELSE IF rep["call"] = "failed"
    THEN [read |-> rep["call"],
          shot |-> Call("screenshot", <<screenshot_path(dir, name), "full_page">>),
          result |-> IF page_outcome = "ok" THEN Returned(None)
                     ELSE Raised(page_outcome)]
    ELSE [read |-> rep["call"], shot |-> NoCall, result |-> Returned(None)]

\* pytest_runtest_makereport(item, call): setattr(item, f"rep_{rep.when}", rep)
makereport(rep, when, outcome) ==
    [w \in DOMAIN rep \cup {when} |-> IF w = when THEN outcome ELSE rep[w]]

\* pytest takes up the next test item, which uses take_screenshot
StartTest ==
    /\ fx_pc \in {"idle", "done"}
    /\ fx_tests < MaxTests
    /\ fx_tests' = fx_tests + 1
    /\ fx_name' \in TestNames
    /\ fx_dir' \in ScreenshotDirs
    /\ fx_active' = FALSE
    /\ fx_pending' = None
    /\ fx_rep' = NoReports
    /\ fx_read' = "none"
    /\ fx_shot' = NoCall
    /\ fx_pc' = "setup"
    /\ UNCHANGED <<flow, poVars, cfVars, apiVars, asVars>>

\* The setup phase sets the item's fixtures up in order: page and
\* screenshot_dir, take_screenshot up to its yield, then the item's other
\* fixtures.  It stops at the first that fails or skips: before
\* take_screenshot was set up, after it, or never.
Setup ==
    /\ fx_pc = "setup"
    /\ \E stops \in {"before", "after", "never"}, how \in {"failed", "skipped"} :
          /\ fx_active' = (stops # "before")
          /\ fx_pending' = (IF stops = "never" THEN "passed" ELSE how)
    /\ fx_pc' = "setup_report"
    /\ UNCHANGED <<flow, poVars, cfVars, apiVars, asVars,
                   fx_tests, fx_name, fx_dir, fx_rep, fx_read, fx_shot>>

\* the call phase: the test function runs
RunTest ==
    /\ fx_pc = "call"
    /\ fx_pending' \in PhaseOutcomes
    /\ fx_pc' = "call_report"
    /\ UNCHANGED <<flow, poVars, cfVars, apiVars, asVars,
                   fx_tests, fx_name, fx_dir, fx_active, fx_rep, fx_read, fx_shot>>

\* The teardown phase finishes take_screenshot if it was set up.
Teardown ==
    /\ fx_pc = "teardown"
    /\ IF fx_active
       THEN \E page_outcome \in PageOutcomes :
               LET done == take_screenshot_teardown(fx_rep, fx_dir, fx_name,
                                                    page_outcome)
               IN  /\ fx_read' = done.read
                   /\ fx_shot' = done.shot
                   /\ fx_pending' = (IF done.result.kind = "ok" THEN "passed"
                                     ELSE "failed")
       ELSE /\ fx_pending' = "passed"
            /\ UNCHANGED <<fx_read, fx_shot>>
    /\ fx_pc' = "teardown_report"
    /\ UNCHANGED <<flow, poVars, cfVars, apiVars, asVars,
                   fx_tests, fx_name, fx_dir, fx_active, fx_rep>>

\* The report of the phase that just ran is made and the hook stores it on
\* the item; pytest goes on to the next phase.
MakeReport ==
    /\ fx_pc \in {"setup_report", "call_report", "teardown_report"}
    /\ LET when == IF fx_pc = "setup_report" THEN "setup"
                   ELSE IF fx_pc = "call_report" THEN "call"
                   ELSE "teardown"
       IN  /\ fx_rep' = makereport(fx_rep, when, fx_pending)
           /\ fx_pc' = IF when = "setup"
                       THEN (IF fx_pending = "passed" THEN "call" ELSE "teardown")
                       ELSE IF when = "call" THEN "teardown"
                       ELSE "done"
    /\ fx_pending' = None
    /\ UNCHANGED <<flow, poVars, cfVars, apiVars, asVars,
                   fx_tests, fx_name, fx_dir, fx_active, fx_read, fx_shot>>

FixtureNext ==
    \/ StartTest
    \/ Setup
    \/ RunTest
    \/ Teardown
    \/ MakeReport

(***************************************************************************)
(* Specifications: one per component; the others stay as constructed.      *)
(***************************************************************************)
EmptyEnvironment ==
    [TEST_BASE_URL |-> UnsetStr, TEST_HEADLESS |-> Unset, TEST_TIMEOUT |-> Unset]

IdleResponse == [status_code |-> 200, json_data |-> JsonNone, elapsed_ms |-> 1000]

\* a page object constructed over a base URL; nothing else in use
PageInit ==
    /\ flow = "ui"
    /\ po_orig \in PageObjects
    /\ po_base \in UrlStrings
    /\ po_chain = po_orig
    /\ po_status = "ok"
    /\ po_given = <<>>
    /\ po_call = NoCall
    /\ po_n = 0
    /\ po_plan = <<>> /\ po_issued = <<>> /\ po_error = None
    /\ cf_file = FileAbsent /\ cf_env = EmptyEnvironment
    /\ cf_op = "none" /\ cf_result = NoResult
    /\ api_given = <<>> /\ api_base = <<>> /\ api_headers = NoHeaders
    /\ api_write = NoWrite /\ api_req = NoRequest /\ api_resp = NoResult
    /\ as_resp = IdleResponse /\ as_call = NoAssertion /\ as_outcome = NoResult
    /\ fx_pc = "idle" /\ fx_tests = 0 /\ fx_name = None /\ fx_dir = None
    /\ fx_active = FALSE /\ fx_pending = None /\ fx_rep = NoReports
    /\ fx_read = "none" /\ fx_shot = NoCall

\* a file and an environment before the configuration is resolved
ConfigInit ==
    /\ flow = "none"
    /\ po_orig = "po1" /\ po_base = <<>> /\ po_chain = "po1"
    /\ po_status = "ok" /\ po_given = <<>> /\ po_call = NoCall /\ po_n = 0
    /\ po_plan = <<>> /\ po_issued = <<>> /\ po_error = None
    /\ cf_file \in Files
    /\ cf_env \in Environments
    /\ cf_op = "none"
    /\ cf_result = NoResult
    /\ api_given = <<>> /\ api_base = <<>> /\ api_headers = NoHeaders
    /\ api_write = NoWrite /\ api_req = NoRequest /\ api_resp = NoResult
    /\ as_resp = IdleResponse /\ as_call = NoAssertion /\ as_outcome = NoResult
    /\ fx_pc = "idle" /\ fx_tests = 0 /\ fx_name = None /\ fx_dir = None
    /\ fx_active = FALSE /\ fx_pending = None /\ fx_rep = NoReports
    /\ fx_read = "none" /\ fx_shot = NoCall

\* a client constructed over a base URL
ApiInit ==
    /\ flow = "api"
    /\ po_orig = "po1" /\ po_base = <<>> /\ po_chain = "po1"
    /\ po_status = "ok" /\ po_given = <<>> /\ po_call = NoCall /\ po_n = 0
    /\ po_plan = <<>> /\ po_issued = <<>> /\ po_error = None
    /\ cf_file = FileAbsent /\ cf_env = EmptyEnvironment
    /\ cf_op = "none" /\ cf_result = NoResult
    /\ api_given \in ApiBaseUrls
    /\ api_base = client_base_url(api_given)
    /\ api_headers = NoHeaders
    /\ api_write = NoWrite
    /\ api_req = NoRequest
    /\ api_resp = NoResult
    /\ as_resp = IdleResponse /\ as_call = NoAssertion /\ as_outcome = NoResult
    /\ fx_pc = "idle" /\ fx_tests = 0 /\ fx_name = None /\ fx_dir = None
    /\ fx_active = FALSE /\ fx_pending = None /\ fx_rep = NoReports
    /\ fx_read = "none" /\ fx_shot = NoCall

\* a Response constructed
AssertInit ==
    /\ flow = "none"
    /\ po_orig = "po1" /\ po_base = <<>> /\ po_chain = "po1"
    /\ po_status = "ok" /\ po_given = <<>> /\ po_call = NoCall /\ po_n = 0
    /\ po_plan = <<>> /\ po_issued = <<>> /\ po_error = None
    /\ cf_file = FileAbsent /\ cf_env = EmptyEnvironment
    /\ cf_op = "none" /\ cf_result = NoResult
    /\ api_given = <<>> /\ api_base = <<>> /\ api_headers = NoHeaders
    /\ api_write = NoWrite /\ api_req = NoRequest /\ api_resp = NoResult
    /\ as_resp \in Responses
    /\ as_call = NoAssertion
    /\ as_outcome = NoResult
    /\ fx_pc = "idle" /\ fx_tests = 0 /\ fx_name = None /\ fx_dir = None
    /\ fx_active = FALSE /\ fx_pending = None /\ fx_rep = NoReports
    /\ fx_read = "none" /\ fx_shot = NoCall

SpecPage == PageInit /\ [][PageNext]_vars
SpecConfig == ConfigInit /\ [][ConfigNext]_vars
SpecApi == ApiInit /\ [][ApiNext]_vars
SpecAssert == AssertInit /\ [][AssertNext]_vars

\* BasePage and APIClient share no state: a test drives one of them, over the
\* methods of that one.
FlowInit ==
    /\ flow \in {"ui", "api"}
    /\ po_orig \in (IF flow = "ui" THEN PageObjects ELSE {"po1"})
    /\ po_base \in (IF flow = "ui" THEN UrlStrings ELSE {<<>>})
    /\ po_chain = po_orig
    /\ po_status = "ok" /\ po_given = <<>> /\ po_call = NoCall /\ po_n = 0
    /\ po_plan = <<>> /\ po_issued = <<>> /\ po_error = None
    /\ cf_file = FileAbsent /\ cf_env = EmptyEnvironment
    /\ cf_op = "none" /\ cf_result = NoResult
    /\ api_given \in (IF flow = "api" THEN ApiBaseUrls ELSE {<<>>})
    /\ api_base = client_base_url(api_given)
    /\ api_headers = NoHeaders
    /\ api_write = NoWrite /\ api_req = NoRequest /\ api_resp = NoResult
    /\ as_resp = IdleResponse /\ as_call = NoAssertion /\ as_outcome = NoResult
    /\ fx_pc = "idle" /\ fx_tests = 0 /\ fx_name = None /\ fx_dir = None
    /\ fx_active = FALSE /\ fx_pending = None /\ fx_rep = NoReports
    /\ fx_read = "none" /\ fx_shot = NoCall

FlowNext == PageNext \/ ApiNext

SpecFlow == FlowInit /\ [][FlowNext]_vars

\* a session about to run its test items
FixtureInit ==
    /\ flow = "none"
    /\ po_orig = "po1" /\ po_base = <<>> /\ po_chain = "po1"
    /\ po_status = "ok" /\ po_given = <<>> /\ po_call = NoCall /\ po_n = 0
    /\ po_plan = <<>> /\ po_issued = <<>> /\ po_error = None
    /\ cf_file = FileAbsent /\ cf_env = EmptyEnvironment
    /\ cf_op = "none" /\ cf_result = NoResult
    /\ api_given = <<>> /\ api_base = <<>> /\ api_headers = NoHeaders
    /\ api_write = NoWrite /\ api_req = NoRequest /\ api_resp = NoResult
    /\ as_resp = IdleResponse /\ as_call = NoAssertion /\ as_outcome = NoResult
    /\ fx_pc = "idle" /\ fx_tests = 0 /\ fx_name = None /\ fx_dir = None
    /\ fx_active = FALSE /\ fx_pending = None /\ fx_rep = NoReports
    /\ fx_read = "none" /\ fx_shot = NoCall

SpecFixture == FixtureInit /\ [][FixtureNext]_vars

(***************************************************************************)
(* Properties                                                              *)
(***************************************************************************)
NoTrailingSlash(s) == s = <<>> \/ s[Len(s)] # "/"
NoLeadingSlash(s) == s = <<>> \/ s[1] # "/"

\* url is base and path with one "/" between them: it splits at a "/" into
\* base less its trailing slashes and path less its leading slashes.
JoinedByOneSlash(base, path, url) ==
    \E i \in 1..Len(url) :
        LET before == SubSeq(url, 1, i - 1)
            after == SubSeq(url, i + 1, Len(url))
        IN  /\ url[i] = "/"
            /\ NoTrailingSlash(before)
            /\ NoLeadingSlash(after)
            /\ \E k \in 0..Len(base) : base = before \o Slashes(k)
            /\ \E k \in 0..Len(path) : path = Slashes(k) \o after

\* C1: while no underlying page call has failed, every method call of a chain
\* has returned the page object it was invoked on, so the reference the chain
\* holds is the page object it started on.
C1_ChainKeepsInstance == po_status = "ok" => po_chain = po_orig

\* C1 witness: a chain of at least two successful calls, the last a fill,
\* still holding the page object it started on.
C1_Witness ==
    po_status = "ok" /\ po_n >= 2 /\ po_call.op = "fill" /\ po_chain = po_orig

\* C9: navigate(path) sends the underlying page to the base URL and the path
\* joined by exactly one slash when the path is non-empty, and to the base
\* URL as it is when the path is empty.
C9_NavigateUrl ==
    po_call.op = "goto" =>
        LET path == po_given[1]
            url == po_call.args[1]
        IN  IF path = <<>> THEN url = po_base
            ELSE JoinedByOneSlash(po_base, path, url)

\* C9 witness: a navigate from a base URL ending in a slash to a path
\* starting with one.
C9_Witness ==
    /\ po_call.op = "goto"
    /\ po_base = <<"a", "/">>
    /\ po_given = << <<"/", "a">> >>
    /\ po_call.args = << <<"a", "/", "a">> >>

\* C7: the URL a request hands to the HTTP session is the base URL the client
\* was given and the path joined by exactly one slash, whatever slashes end
\* the one and start the other, the empty path included.
C7_RequestUrl ==
    api_req.made => JoinedByOneSlash(api_given, api_req.path, api_req.url)

\* C7 witness: a request with two slashes at the end of the base URL and two
\* at the start of the path.
C7_Witness ==
    /\ api_req.made
    /\ api_given = <<"a", "/", "b", "/", "/">>
    /\ api_req.path = <<"/", "/", "u", "/">>
    /\ api_req.url = <<"a", "/", "b", "/", "u", "/">>

\* headers is defaults and per_call merged, per_call winning
MergedPerCallWins(defaults, per_call, headers) ==
    /\ DOMAIN headers = DOMAIN defaults \cup DOMAIN per_call
    /\ \A k \in DOMAIN per_call : headers[k] = per_call[k]
    /\ \A k \in DOMAIN defaults \ DOMAIN per_call : headers[k] = defaults[k]

\* C8: a set_header / set_auth_token leaves the key it wrote holding the
\* value written and every other default header as it was, and the headers a
\* request sends are the default headers of that moment merged with the
\* per-call headers, the per-call value winning on a key of both.
C8_HeadersSent ==
    [][ /\ (api_req'.made /\ api_headers' = api_headers) =>
              MergedPerCallWins(api_headers, api_req'.per_call, api_req'.headers)
        /\ (api_write'.key # None /\ ~api_req'.made) =>
              /\ DOMAIN api_headers' = DOMAIN api_headers \cup {api_write'.key}
              /\ api_headers'[api_write'.key] = api_write'.value
              /\ \A k \in DOMAIN api_headers \ {api_write'.key} :
                    api_headers'[k] = api_headers[k]
      ]_vars

\* C8 witness: a request sent after Authorization was written twice, with a
\* per-call Authorization: the per-call value is sent for it, the default
\* for X-Custom.
C8_Witness ==
    /\ api_req.made
    /\ DOMAIN api_headers = {"Authorization", "X-Custom"}
    /\ api_headers["Authorization"] = <<"Bearer ", "my-token">>
    /\ DOMAIN api_req.per_call = {"Authorization"}
    /\ api_req.headers["Authorization"] = <<"call">>
    /\ api_req.headers["X-Custom"] = <<"v1">>

(***************************************************************************)
(* Properties of the configuration loader                                  *)
(***************************************************************************)
\* "true" in any mix of upper and lower case
IsTrueSpelling(v) ==
    /\ Len(v) = 4
    /\ v[1] \in {"t", "T"} /\ v[2] \in {"r", "R"}
    /\ v[3] \in {"u", "U"} /\ v[4] \in {"e", "E"}

\* s is an integer in decimal: digits, a sign before them at most, spaces
\* around them at most
ReadsAsInt(s) ==
    \E a \in 1..Len(s), b \in 1..Len(s) :
        /\ a <= b
        /\ \A i \in 1..(a - 1) : s[i] = " "
        /\ \A i \in (b + 1)..Len(s) : s[i] = " "
        /\ LET first == IF s[a] \in {"-", "+"} THEN a + 1 ELSE a
           IN  first <= b /\ \A i \in first..b : IsDigit(s[i])

RECURSIVE Pow10(_)
Pow10(n) == IF n = 0 THEN 1 ELSE 10 * Pow10(n - 1)

RECURSIVE PlaceSum(_, _, _)
PlaceSum(s, i, b) ==
    IF i > b THEN 0 ELSE DigitVal(s[i]) * Pow10(b - i) + PlaceSum(s, i + 1, b)

\* the integer a string that ReadsAsInt stands for
IntRead(s) ==
    LET a == CHOOSE i \in 1..Len(s) : s[i] # " "
        b == CHOOSE i \in 1..Len(s) : s[i] # " " /\ \A j \in (i + 1)..Len(s) : s[j] = " "
        first == IF s[a] \in {"-", "+"} THEN a + 1 ELSE a
    IN  IF s[a] = "-" THEN 0 - PlaceSum(s, first, b) ELSE PlaceSum(s, first, b)

EnvBaseUrl == cf_env.TEST_BASE_URL
EnvHeadless == cf_env.TEST_HEADLESS
EnvTimeout == cf_env.TEST_TIMEOUT

FileExists == cf_file.kind # "absent"
FileGives(k) == cf_file.kind = "map" /\ cf_file.items[k].set
FileValue(k) == cf_file.items[k].val

\* the configuration was resolved from the environment
FromEnvRan == cf_op = "from_env" \/ (cf_op = "config" /\ ~FileExists)
\* the configuration was resolved from config.yaml
FromYamlRan == cf_op = "from_yaml" \/ (cf_op = "config" /\ FileExists)

Resolved == cf_result.value

\* C2 as stated: the config fixture gives every setting the file's value if
\* the file sets it, otherwise the environment variable's value if it holds
\* one, otherwise the default, whether the file exists or not.  (What a
\* TEST_TIMEOUT that is no integer contributes is left open.)
C2_FileOverEnvOverDefault ==
    (cf_op = "config" /\ cf_result.kind = "ok") =>
        /\ Resolved.base_url =
              IF FileGives("base_url") THEN FileValue("base_url")
              ELSE IF EnvBaseUrl.set /\ EnvBaseUrl.val # "" THEN EnvBaseUrl.val
              ELSE DefaultConfig.base_url
        /\ Resolved.browser.headless =
              IF FileGives("headless") THEN FileValue("headless")
              ELSE IF EnvHeadless.set /\ EnvHeadless.val # <<>>
                   THEN IsTrueSpelling(EnvHeadless.val)
              ELSE DefaultConfig.browser.headless
        /\ IF FileGives("timeout") THEN Resolved.browser.timeout = FileValue("timeout")
           ELSE IF EnvTimeout.set /\ EnvTimeout.val # <<>>
                THEN ReadsAsInt(EnvTimeout.val) =>
                        Resolved.browser.timeout = IntRead(EnvTimeout.val)
           ELSE Resolved.browser.timeout = DefaultConfig.browser.timeout

\* C2 amended: when config.yaml exists the config fixture gives every
\* setting the file's value if the file sets it and the default otherwise,
\* the environment unread; when it does not exist, the environment
\* variable's value if it is set to a non-empty string and the default
\* otherwise.
C2_FileElseEnv ==
    (cf_op = "config" /\ cf_result.kind = "ok") =>
        IF FileExists
        THEN /\ Resolved.base_url =
                   IF FileGives("base_url") THEN FileValue("base_url")
                   ELSE DefaultConfig.base_url
             /\ Resolved.browser.headless =
                   IF FileGives("headless") THEN FileValue("headless")
                   ELSE DefaultConfig.browser.headless
             /\ Resolved.browser.timeout =
                   IF FileGives("timeout") THEN FileValue("timeout")
                   ELSE DefaultConfig.browser.timeout
        ELSE /\ Resolved.base_url =
                   IF EnvBaseUrl.set /\ EnvBaseUrl.val # "" THEN EnvBaseUrl.val
                   ELSE DefaultConfig.base_url
             /\ Resolved.browser.headless =
                   IF EnvHeadless.set /\ EnvHeadless.val # <<>>
                   THEN IsTrueSpelling(EnvHeadless.val)
                   ELSE DefaultConfig.browser.headless
             /\ Resolved.browser.timeout =
                   IF EnvTimeout.set /\ EnvTimeout.val # <<>>
                   THEN IntRead(EnvTimeout.val)
                   ELSE DefaultConfig.browser.timeout

\* C2 witness: config.yaml sets the timeout only, TEST_BASE_URL is set, and
\* the fixture resolves the base URL to the default.
C2_Witness ==
    /\ cf_op = "config" /\ cf_result.kind = "ok"
    /\ FileGives("timeout") /\ ~FileGives("base_url")
    /\ EnvBaseUrl = SetTo("https://env.example.com")
    /\ Resolved.base_url = "http://localhost:8000"
    /\ Resolved.browser.timeout = 5000

\* C3 as stated: resolving from the environment, a TEST_HEADLESS that is
\* set gives headless = true if it spells "true" in any case and false for
\* any other value, the empty string included; unset, headless is true.
C3_HeadlessAnyOtherValueFalse ==
    (FromEnvRan /\ cf_result.kind = "ok") =>
        Resolved.browser.headless =
            IF EnvHeadless.set THEN IsTrueSpelling(EnvHeadless.val) ELSE TRUE

\* C3 amended: resolving from the environment, a TEST_HEADLESS set to a
\* non-empty value gives headless = true if it spells "true" in any case and
\* false for any other value; unset or empty, headless keeps its default,
\* true.
C3_HeadlessNonEmptyValue ==
    (FromEnvRan /\ cf_result.kind = "ok") =>
        Resolved.browser.headless =
            IF EnvHeadless.set /\ EnvHeadless.val # <<>>
            THEN IsTrueSpelling(EnvHeadless.val)
            ELSE TRUE

\* C3 witness: from_env with TEST_HEADLESS=TRUE resolves headless to true.
C3_Witness ==
    /\ cf_op = "from_env" /\ cf_result.kind = "ok"
    /\ EnvHeadless = SetTo(<<"T", "R", "U", "E">>)
    /\ Resolved.browser.headless = TRUE

\* C4: every Settings the resolver returns has its numeric fields
\* non-negative, and resolving with no file and no environment variable set
\* returns a Settings.
C4_NumericFieldsNonNegative ==
    /\ cf_result.kind = "ok" =>
          /\ Resolved.browser.slow_mo >= 0
          /\ Resolved.browser.viewport_width >= 0
          /\ Resolved.browser.viewport_height >= 0
          /\ Resolved.browser.timeout >= 0
          /\ Resolved.api_timeout >= 0
    /\ (cf_op # "none" /\ ~FileExists
        /\ ~EnvBaseUrl.set /\ ~EnvHeadless.set /\ ~EnvTimeout.set) =>
          cf_result.kind = "ok"

\* config.yaml holds something other than a mapping of valid settings
Malformed(f) ==
    \/ f.kind \in {"unparseable", "scalar", "list"}
    \/ f.kind = "map" /\ \E k \in DataKeys : f.items[k].set /\ ~f.items[k].valid

\* C5: loading a config.yaml whose content is malformed raises; no Settings
\* is returned for it.
C5_MalformedFileRaises ==
    (FromYamlRan /\ Malformed(cf_file)) => cf_result.kind = "raised"

\* C6 as stated: resolving from the environment, a TEST_TIMEOUT that is set
\* raises and returns no Settings if it does not read as an integer, and
\* becomes browser.timeout if it does.
C6_TimeoutSetMustParse ==
    (FromEnvRan /\ EnvTimeout.set) =>
        IF ReadsAsInt(EnvTimeout.val)
        THEN cf_result.kind = "ok" /\ Resolved.browser.timeout = IntRead(EnvTimeout.val)
        ELSE cf_result.kind = "raised"

\* C6 amended: resolving from the environment, a non-empty TEST_TIMEOUT
\* raises and returns no Settings if it does not read as an integer, and
\* becomes browser.timeout if it does; an empty TEST_TIMEOUT is read as an
\* unset one and leaves the default timeout.
C6_TimeoutNonEmptyMustParse ==
    FromEnvRan =>
        IF EnvTimeout.set /\ EnvTimeout.val # <<>>
        THEN IF ReadsAsInt(EnvTimeout.val)
             THEN /\ cf_result.kind = "ok"
                  /\ Resolved.browser.timeout = IntRead(EnvTimeout.val)
             ELSE cf_result.kind = "raised"
        ELSE cf_result.kind = "ok" /\ Resolved.browser.timeout = 30000

\* C6 witness: from_env with TEST_TIMEOUT=1x raises.
C6_Witness ==
    /\ cf_op = "from_env"
    /\ EnvTimeout = SetTo(<<"1", "x">>)
    /\ cf_result.kind = "raised"

(***************************************************************************)
(* Properties of the assertion helpers                                     *)
(***************************************************************************)
BodyIsObject == as_resp.json_data.kind = "dict"
KeyPresent == BodyIsObject /\ as_call.key \in DOMAIN as_resp.json_data.items
Stored == as_resp.json_data.items[as_call.key]

\* C10 as stated: assert_json_contains fails if the body is no JSON object,
\* if the key is absent, or if the caller supplied a value, whatever it is,
\* and the stored value differs from it; it passes in every other case.
C10_AnySuppliedValueCompared ==
    as_call.fn = "assert_json_contains" =>
        IF \/ ~BodyIsObject
           \/ ~KeyPresent
           \/ as_call.supplied /\ Stored # as_call.value
        THEN as_outcome.kind = "raised"
        ELSE as_outcome = Passed

\* C10 amended: assert_json_contains fails if the body is no JSON object, if
\* the key is absent, or if the caller supplied a value other than None and
\* the stored value differs from it; it passes in every other case, a
\* supplied None included.
C10_NonNullValueCompared ==
    as_call.fn = "assert_json_contains" =>
        IF \/ ~BodyIsObject
           \/ ~KeyPresent
           \/ as_call.supplied /\ as_call.value # None /\ Stored # as_call.value
        THEN as_outcome.kind = "raised"
        ELSE as_outcome = Passed

\* C10 witness: the key is stored with "test", the caller supplies "other",
\* and the assertion fails.
C10_Witness ==
    /\ as_call.fn = "assert_json_contains"
    /\ KeyPresent /\ Stored = "test"
    /\ as_call.supplied /\ as_call.value = "other"
    /\ as_outcome.kind = "raised" /\ as_outcome.error = "AssertionError"


(***************************************************************************)
(* Response.json() and the status and timing assertions                    *)
(***************************************************************************)
BodyAbsent == as_resp.json_data = JsonNone

\* C11: response.json() fails with the "not JSON" ValueError exactly when the
\* parsed body is absent; in every other case, the empty object and the
\* empty list included, it returns the stored body unchanged.
C11_JsonFailsIffBodyAbsent ==
    as_call.fn = "json" =>
        IF BodyAbsent
        THEN /\ as_outcome.kind = "raised"
             /\ as_outcome.error = "ValueError"
             /\ as_outcome.message = <<"Response is not JSON">>
        ELSE /\ as_outcome.kind = "ok"
             /\ as_outcome.value = as_resp.json_data

\* C11 witness: json() was read on a response whose body is the empty list
\* and returned it.
C11_Witness ==
    /\ as_call.fn = "json"
    /\ as_resp.json_data = JsonList(0)
    /\ as_outcome = Returned(JsonList(0))

\* C12: assert_status(response, expected) fails exactly when the response's
\* status code differs from expected, with a message that names the expected
\* and then the actual status code; when they are equal it passes.  Either
\* way the response is left as it was.
C12_StatusFailsIffDifferent ==
    [][as_call'.fn = "assert_status" =>
          /\ as_resp' = as_resp
          /\ IF as_resp.status_code # as_call'.expected
             THEN /\ as_outcome'.kind = "raised"
                  /\ as_outcome'.error = "AssertionError"
                  /\ Len(as_outcome'.message) = 4
                  /\ as_outcome'.message[2] = as_call'.expected
                  /\ as_outcome'.message[4] = as_resp.status_code
             ELSE as_outcome' = Passed]_vars

\* C12 witness: a 404 response was asserted to be 200 and the assertion
\* failed, its message naming 200 and 404.
C12_Witness ==
    /\ as_call.fn = "assert_status"
    /\ as_call.expected = 200
    /\ as_resp.status_code = 404
    /\ as_outcome.kind = "raised"
    /\ as_outcome.message = <<"Expected status ", 200, ", got ", 404>>

\* the elapsed time the failure message of assert_response_time reports
ReportedMs == as_outcome.message[2]

\* m whole milliseconds is t tenths to the nearest millisecond
NearestMs(m, t) == 10 * m - t \in -5..5

\* C13: assert_response_time(response, max_ms) fails exactly when the
\* response's elapsed time strictly exceeds max_ms, with a message that
\* reports the elapsed time, to the nearest whole millisecond; it passes when
\* the elapsed time is less than or equal to max_ms.
C13_TimeFailsIffExceeds ==
    as_call.fn = "assert_response_time" =>
        IF as_resp.elapsed_ms > as_call.max_ms
        THEN /\ as_outcome.kind = "raised"
             /\ as_outcome.error = "AssertionError"
             /\ NearestMs(ReportedMs, as_resp.elapsed_ms)
        ELSE as_outcome = Passed

\* C13 witness: a response that took 100.4 ms was asserted to take at most
\* 100 ms; the assertion failed and its message reports 100 ms.
C13_Witness ==
    /\ as_call.fn = "assert_response_time"
    /\ as_call.max_ms = 1000
    /\ as_resp.elapsed_ms = 1004
    /\ as_outcome.kind = "raised"
    /\ ReportedMs = 100

(***************************************************************************)
(* Errors of the underlying page and HTTP session                          *)
(***************************************************************************)
\* the first call of the plan that the page answers with an error, 0 if none
FirstFailure(plan) ==
    IF \A i \in DOMAIN plan : plan[i] = "ok" THEN 0
    ELSE CHOOSE i \in DOMAIN plan :
             plan[i] # "ok" /\ \A j \in 1..(i - 1) : plan[j] = "ok"

IssuedOps == [i \in DOMAIN po_issued |-> po_issued[i].op]

SearchOps == <<"fill", "click", "wait_for_load_state">>

\* C14: an error raised by the underlying page or HTTP session leaves the
\* wrapping method as it is.  For a page method, and for the chain of three
\* that SearchPage.search is: the calls up to and including the first one
\* the page fails are issued and none after it, the method fails with the
\* error of that call and returns nothing; if the page fails none, every
\* call is issued and the method returns.  For a request: if the session
\* raises, the request method fails with that error and returns nothing.
C14_ErrorsPropagate ==
    /\ (flow = "ui" /\ po_plan # <<>>) =>
          LET k == FirstFailure(po_plan)
          IN  /\ Len(po_issued) = (IF k = 0 THEN Len(po_plan) ELSE k)
              /\ Len(po_plan) = 3 =>
                    IssuedOps = SubSeq(SearchOps, 1, Len(po_issued))
              /\ IF k = 0
                 THEN po_status = "ok" /\ po_error = None /\ po_chain # None
                 ELSE /\ po_status = "raised"
                      /\ po_error = po_plan[k]
                      /\ po_chain = None
    /\ (flow = "api" /\ api_req.made) =>
          IF api_req.answer.raises
          THEN api_resp = Raised(api_req.answer.error)
          ELSE api_resp.kind = "ok"

\* C14 witness: in a search the fill went through and the click timed out:
\* search failed with the TimeoutError, nothing was returned, and the
\* wait_for_load_state that the page would have carried out was not issued.
C14_Witness ==
    /\ flow = "ui"
    /\ po_plan = <<"ok", "TimeoutError", "ok">>
    /\ IssuedOps = <<"fill", "click">>
    /\ po_status = "raised"
    /\ po_error = "TimeoutError"
    /\ po_chain = None

\* a request for which the session raised ConnectionError has failed with it
C14_SessionErrorReached ==
    /\ flow = "api"
    /\ api_req.made
    /\ api_req.answer.raises
    /\ api_resp = Raised("ConnectionError")

(***************************************************************************)
(* The screenshot on failure                                               *)
(***************************************************************************)
TeardownRan == fx_read # "none"

CallReported == "call" \in DOMAIN fx_rep

\* C15: whenever take_screenshot's teardown has run, the call-phase report
\* was on the item by then and is what the teardown read, and the teardown
\* issued a full-page screenshot named after the test if that report is a
\* failure and no screenshot otherwise.
C15_TeardownReadsStoredCallReport ==
    TeardownRan =>
        /\ CallReported
        /\ fx_read = fx_rep["call"]
        /\ fx_shot = IF fx_rep["call"] = "failed"
                     THEN Call("screenshot",
                               <<screenshot_path(fx_dir, fx_name), "full_page">>)
                     ELSE NoCall

SetupPassed == "setup" \in DOMAIN fx_rep /\ fx_rep["setup"] = "passed"

\* C15 where the setup phase passed: the call phase ran and was reported
\* before the teardown, which read that report and took the screenshot
\* exactly for a failure.
C15_HoldsWhenSetupPassed ==
    (TeardownRan /\ SetupPassed) =>
        /\ CallReported
        /\ fx_read = fx_rep["call"]
        /\ fx_shot = IF fx_rep["call"] = "failed"
                     THEN Call("screenshot",
                               <<screenshot_path(fx_dir, fx_name), "full_page">>)
                     ELSE NoCall

\* C15, a failed test: its call phase was reported as a failure and the
\* teardown issued the screenshot.
C15_ScreenshotReached ==
    /\ TeardownRan
    /\ CallReported /\ fx_rep["call"] = "failed"
    /\ fx_shot = Call("screenshot", <<screenshot_path(fx_dir, fx_name), "full_page">>)
=============================================================================
